---- MODULE Spec2Model ----
(***************************************************************************)
(* A model of the TaxiSimulation discrete-event engine: the timestamp      *)
(* ordered PriorityQueue, the Dispatcher's matching policy, the Driver and *)
(* Rider records, the Monitor's activity log and the five event kinds.     *)
(***************************************************************************)
EXTENDS Integers, Sequences, FiniteSets, TLC

\* ------------------------------------------------------------------ bounds
MaxTime == 1            \* initial events carry timestamps 0..MaxTime
MaxPatience == 2        \* rider patience is drawn from 0..MaxPatience
MaxSpeed == 2           \* driver speed is drawn from 1..MaxSpeed
MaxAdds == 5            \* PriorityQueue.add calls when the queue runs on its own
MaxStamp == 2           \* timestamps 0..MaxStamp when the queue runs on its own
MaxCoord == 2           \* rows and columns 0..MaxCoord when the travel time runs on its own

\* ---------------------------------------------------------------- actors
Riders == {"r1", "r2", "r3"}
Drivers == {"d1", "d2"}

\* the order in which actors are named
Rank == [r1 |-> 1, r2 |-> 2, r3 |-> 3, d1 |-> 1, d2 |-> 2]

\* Python's None, for a Location and for an actor reference
NoLocation == <<>>
None == "None"

\* the grid points the inputs are drawn from: Location(row, column)
Locations == {<<0, 0>>, <<0, 1>>, <<1, 2>>}

\* rider.py: status constants
WAITING == "waiting"
CANCELLED == "cancelled"
SATISFIED == "satisfied"

\* monitor.py: activity descriptions
REQUEST == "request"
CANCEL == "cancel"
PICKUP == "pickup"
DROPOFF == "dropoff"

\* ------------------------------------------------------------- location.py
Abs(x) == IF x < 0 THEN -x ELSE x

\* manhattan_distance(origin, destination); both must be Locations
manhattan_distance(origin, destination) ==
    Abs(origin[1] - destination[1]) + Abs(origin[2] - destination[2])

\* attribute access on None raises AttributeError
manhattan_raises(origin, destination) ==
    origin = NoLocation \/ destination = NoLocation

\* --------------------------------------------------------------- driver.py
\* float.__round__(): nearest integer, ties to the even one
PyRound_half_up(num, den) ==
    IF 2 * (num % den) < den THEN num \div den ELSE (num \div den) + 1
PyRound(num, den) ==
    LET q == num \div den
        r == num % den
    IN  IF 2 * r < den THEN q
        ELSE IF 2 * r > den THEN q + 1
        ELSE IF q % 2 = 0 THEN q ELSE q + 1

Driver(location, speed) ==
    [location |-> location, speed |-> speed,
     destination |-> NoLocation, is_idle |-> TRUE]

get_travel_time(driver, destination) ==
    PyRound(manhattan_distance(driver.location, destination), driver.speed)

get_travel_time_raises(driver, destination) ==
    manhattan_raises(driver.location, destination)

start_drive(driver, location) ==
    [driver EXCEPT !.destination = location, !.is_idle = FALSE]

start_ride(driver, rider) ==
    [driver EXCEPT !.is_idle = FALSE, !.location = rider.origin,
                   !.destination = rider.destination]

\* what start_drive and start_ride return
start_drive_returns(driver, location) ==
    get_travel_time(start_drive(driver, location),
                    start_drive(driver, location).destination)

start_ride_returns(driver, rider) ==
    get_travel_time(start_ride(driver, rider),
                    start_ride(driver, rider).destination)

end_ride_still_busy(driver) == [driver EXCEPT !.location = driver.destination]
end_ride(driver) ==
    [driver EXCEPT !.location = driver.destination, !.is_idle = TRUE]

\* Driver.__eq__ on two driver objects a and b (ids ida and idb)
Driver_eq(ida, a, idb, b) ==
    /\ ida = idb
    /\ a.location = b.location
    /\ a.speed = b.speed
    /\ a.destination = b.destination
    /\ a.is_idle = b.is_idle

\* ---------------------------------------------------------------- rider.py
Rider(origin, destination, patience) ==
    [origin |-> origin, destination |-> destination,
     status |-> WAITING, patience |-> patience]

\* ------------------------------------------------------------ container.py
\* Event.__lt__
Event_lt_or_equal(a, b) == a.timestamp <= b.timestamp
Event_lt(a, b) == a.timestamp < b.timestamp

\* list.sort() is stable: an item moves in front of exactly the items that
\* compare greater than it
InsertSorted_first(sorted, item) ==
    LET later == {i \in 1..Len(sorted) : ~Event_lt(sorted[i], item)}
        pos == IF later = {} THEN Len(sorted) + 1
               ELSE CHOOSE i \in later : \A j \in later : i <= j
    IN  SubSeq(sorted, 1, pos - 1) \o <<item>> \o SubSeq(sorted, pos, Len(sorted))
InsertSorted(sorted, item) ==
    LET later == {i \in 1..Len(sorted) : Event_lt(item, sorted[i])}
        pos == IF later = {} THEN Len(sorted) + 1
               ELSE CHOOSE i \in later : \A j \in later : i <= j
    IN  SubSeq(sorted, 1, pos - 1) \o <<item>> \o SubSeq(sorted, pos, Len(sorted))

RECURSIVE ListSort(_)
ListSort(items) ==
    IF items = <<>> THEN <<>>
    ELSE InsertSorted(ListSort(SubSeq(items, 1, Len(items) - 1)),
                      items[Len(items)])

\* PriorityQueue.add
PriorityQueue_add_unsorted(items, item) == Append(items, item)
PriorityQueue_add(items, item) == ListSort(Append(items, item))

\* PriorityQueue.remove: the item returned and the items left
PriorityQueue_remove(items) == [item |-> Head(items), items |-> Tail(items)]

\* Queue.add, Queue.remove, Queue.is_empty
Queue_add(items, item) == Append(items, item)
Queue_remove_keeps(items) == [item |-> Head(items), items |-> items]
Queue_remove_newest(items) ==
    [item |-> items[Len(items)], items |-> SubSeq(items, 1, Len(items) - 1)]
Queue_remove(items) == [item |-> Head(items), items |-> Tail(items)]
Queue_is_empty(items) == Len(items) = 0

\* list.remove(x): drops the first occurrence of x
ListRemove(items, x) ==
    LET at == {i \in 1..Len(items) : items[i] = x}
        pos == CHOOSE i \in at : \A j \in at : i <= j
    IN  SubSeq(items, 1, pos - 1) \o SubSeq(items, pos + 1, Len(items))

InList(items, x) == \E i \in 1..Len(items) : items[i] = x


\* ------------------------------------------------------------------ state
VARIABLES
    events,             \* PriorityQueue._items of the engine's event queue
    nextId,             \* identity of the next Event object created
    riders,             \* rider id -> Rider object
    drivers,            \* driver id -> Driver object
    available_drivers,  \* Dispatcher._available_drivers (driver ids)
    waiting_riders,     \* Dispatcher._waiting_riders.items (rider ids)
    activities,         \* Monitor._activities: category -> id -> activities
    error,              \* the exception that ended the run, or None
    last,               \* the event executed last, what the dispatcher
                        \* returned to it and the events it spawned
    report,             \* what Monitor.report() returned, or NoReport
    matched             \* history: for each rider the Pickup events created
                        \* for it so far and the kind of event that did

vars == <<events, nextId, riders, drivers, available_drivers,
          waiting_riders, activities, error, last, report, matched>>

\* ---------------------------------------------------------------- event.py
Event(id, kind, timestamp, rider, driver) ==
    [id |-> id, kind |-> kind, timestamp |-> timestamp,
     rider |-> rider, driver |-> driver]

NoEvent == Event(0, None, 0, None, None)

\* --------------------------------------------------------------- monitor.py
Activity(timestamp, description, location) ==
    [description |-> description, time |-> timestamp, location |-> location]

\* Monitor.notify: an actor without activities has no key in the dict
notify(acts, timestamp, category, description, identifier, location) ==
    [acts EXCEPT ![category][identifier] =
        Append(@, Activity(timestamp, description, location))]

\* the sum of f over the finite set S
RECURSIVE SumOver(_, _)
SumOver(f, S) ==
    IF S = {} THEN 0
    ELSE LET x == CHOOSE y \in S : TRUE
         IN  f[x] + SumOver(f, S \ {x})

\* the pairs activities[index], activities[index + 1] the loops walk over
Pairs(acts) == IF Len(acts) < 2 THEN {} ELSE 1..(Len(acts) - 1)

\* the keys of one category's dict: the actors notify was called for
Recorded(byId) == {a \in DOMAIN byId : byId[a] # <<>>}

\* a quotient of two ints, kept exact
Quotient(num, den) == [num |-> num, den |-> den]

\* Monitor._average_wait_time: the wait of one rider
wait_time_second(acts) == acts[2].time
wait_time(acts) == acts[2].time - acts[1].time

average_wait_time(byId) ==
    LET finished == {a \in Recorded(byId) : Len(byId[a]) >= 2}
    IN  Quotient(SumOver([a \in finished |-> wait_time(byId[a])], finished),
                 Cardinality(finished))

\* Monitor._average_total_distance: the distance of one driver
total_distance(acts) ==
    SumOver([i \in Pairs(acts) |->
                manhattan_distance(acts[i].location, acts[i + 1].location)],
            Pairs(acts))

total_distance_raises(acts) ==
    \E i \in Pairs(acts) :
        manhattan_raises(acts[i].location, acts[i + 1].location)

average_total_distance(byId) ==
    Quotient(SumOver([a \in Recorded(byId) |-> total_distance(byId[a])],
                     Recorded(byId)),
             Cardinality(Recorded(byId)))

\* Monitor._average_ride_distance: the pairs that count as a ride
ride_pair_any(acts, i) == TRUE
ride_pair(acts, i) ==
    acts[i].description = PICKUP /\ acts[i + 1].description = DROPOFF

ride_distance(acts) ==
    LET rides == {i \in Pairs(acts) : ride_pair(acts, i)}
    IN  SumOver([i \in rides |->
                    manhattan_distance(acts[i].location,
                                       acts[i + 1].location)], rides)

ride_distance_raises(acts) ==
    \E i \in Pairs(acts) :
        /\ ride_pair(acts, i)
        /\ manhattan_raises(acts[i].location, acts[i + 1].location)

average_ride_distance(byId) ==
    Quotient(SumOver([a \in Recorded(byId) |-> ride_distance(byId[a])],
                     Recorded(byId)),
             Cardinality(Recorded(byId)))

\* no report was returned: a quotient by zero is never returned
NoReport == [rider_wait_time |-> Quotient(0, 0),
             driver_total_distance |-> Quotient(0, 0),
             driver_ride_distance |-> Quotient(0, 0)]

\* Monitor.report: the dict returned (or none) and the exception raised
\* (or None); the three averages are computed in this order
Monitor_report(acts) ==
    LET raised ==
          IF average_wait_time(acts.rider).den = 0 THEN "ZeroDivisionError"
          ELSE IF \E d \in Recorded(acts.driver) :
                     total_distance_raises(acts.driver[d])
          THEN "AttributeError"
          ELSE IF Recorded(acts.driver) = {} THEN "ZeroDivisionError"
          ELSE IF \E d \in Recorded(acts.driver) :
                     ride_distance_raises(acts.driver[d])
          THEN "AttributeError"
          ELSE None
    IN  [error |-> raised,
         value |-> IF raised # None THEN NoReport
                   ELSE [rider_wait_time |-> average_wait_time(acts.rider),
                         driver_total_distance |->
                            average_total_distance(acts.driver),
                         driver_ride_distance |->
                            average_ride_distance(acts.driver)]]

\* ------------------------------------------------------------ dispatcher.py
SetMin(S) == CHOOSE x \in S : \A y \in S : x <= y

\* Dispatcher.request_driver: the driver returned (or None), the waiting
\* list afterwards and the exception raised (or None)
request_driver(avail, waiting, drv, rider, origin) ==
    LET idle == {i \in 1..Len(avail) : drv[avail[i]].is_idle}
        raisesAt(i) == get_travel_time_raises(drv[avail[i]], origin)
        timeAt(i) == get_travel_time(drv[avail[i]], origin)
        DriverTimes == {timeAt(i) : i \in idle}
        shortestTime == SetMin(DriverTimes)
        stops == {i \in 1..Len(avail) :
                    raisesAt(i) \/ timeAt(i) = shortestTime}
        first == SetMin(stops)
    IN  IF Len(avail) = 0
        THEN [ret |-> None, waiting |-> Queue_add(waiting, rider),
              error |-> None]
        ELSE IF \E i \in idle : raisesAt(i)
        THEN [ret |-> None, waiting |-> waiting, error |-> "AttributeError"]
        ELSE IF DriverTimes = {}
        THEN [ret |-> None, waiting |-> waiting, error |-> "ValueError"]
        ELSE IF raisesAt(first)
        THEN [ret |-> None, waiting |-> waiting, error |-> "AttributeError"]
        ELSE [ret |-> avail[first], waiting |-> waiting, error |-> None]

\* `driver in self._available_drivers`: identity first, then Driver.__eq__
driver_registered_always(avail, drv, driver) == TRUE
driver_registered_last(avail, drv, driver) ==
    Len(avail) > 0 /\ avail[Len(avail)] = driver
driver_registered(avail, drv, driver) ==
    \E i \in 1..Len(avail) :
        \/ avail[i] = driver
        \/ Driver_eq(avail[i], drv[avail[i]], driver, drv[driver])

\* Dispatcher.request_rider: the rider returned (or None), the registry and
\* the waiting list afterwards
request_rider_peek(avail, waiting, drv, driver) ==
    LET registry == IF driver_registered(avail, drv, driver) THEN avail
                    ELSE Append(avail, driver)
    IN  IF Queue_is_empty(waiting)
        THEN [ret |-> None, available |-> registry, waiting |-> waiting]
        ELSE [ret |-> Head(waiting), available |-> registry,
              waiting |-> waiting]
request_rider(avail, waiting, drv, driver) ==
    LET registry == IF driver_registered(avail, drv, driver) THEN avail
                    ELSE Append(avail, driver)
    IN  IF Queue_is_empty(waiting)
        THEN [ret |-> None, available |-> registry, waiting |-> waiting]
        ELSE [ret |-> Queue_remove(waiting).item, available |-> registry,
              waiting |-> Queue_remove(waiting).items]

\* Dispatcher.cancel_ride: the waiting list afterwards
cancel_ride_nobody(waiting, rider) == waiting
cancel_ride_head(waiting, rider) ==
    IF InList(waiting, rider) THEN Tail(waiting) ELSE waiting
cancel_ride(waiting, rider) ==
    IF InList(waiting, rider) THEN ListRemove(waiting, rider) ELSE waiting

\* ------------------------------------------------------------------ engine
\* the engine adds the events an executed event returned, in list order
RECURSIVE EnqueueAll(_, _)
EnqueueAll(items, new_events) ==
    IF new_events = <<>> THEN items
    ELSE EnqueueAll(PriorityQueue_add(items, Head(new_events)),
                    Tail(new_events))

\* one turn of the engine's loop: the event removed has been executed and
\* returned new_events, or raised
Matches(r, e, new_events) ==
    LET pickups == SelectSeq(new_events,
                             LAMBDA x : x.kind = "Pickup" /\ x.rider = r)
    IN  [i \in 1..Len(pickups) |->
            [by |-> e.kind, driver |-> pickups[i].driver,
             timestamp |-> pickups[i].timestamp]]

Executed(e, ret, new_events, raised) ==
    /\ events' = IF raised = None
                 THEN EnqueueAll(PriorityQueue_remove(events).items, new_events)
                 ELSE PriorityQueue_remove(events).items
    /\ nextId' = nextId + Len(new_events)
    /\ error' = raised
    /\ last' = [event |-> e, ret |-> ret,
                spawned |-> IF raised = None THEN new_events ELSE <<>>]
    /\ matched' = IF raised = None
                  THEN [r \in DOMAIN matched |->
                          matched[r] \o Matches(r, e, new_events)]
                  ELSE matched
    /\ UNCHANGED report

Running == error = None /\ events # <<>>

Next_event == PriorityQueue_remove(events).item


\* ------------------------------------------------------- event.py handlers
\* Cancellation.do acts unless the rider has been picked up
Cancellation_applies_if_satisfied(status) == status = SATISFIED
Cancellation_applies_unless_cancelled(status) == status # CANCELLED
Cancellation_applies_always(status) == TRUE
Cancellation_applies(status) == status # SATISFIED

\* Pickup.do picks the rider up only while it is still waiting
Pickup_applies_unless_satisfied(status) == status # SATISFIED
Pickup_applies(status) == status = WAITING

\* the Cancellation a RiderRequest e schedules for its rider
Cancellation_at_once(e, r) ==
    Event(0, "Cancellation", e.timestamp, r, None)
Cancellation_at_twice(e, r) ==
    Event(0, "Cancellation", e.timestamp + 2 * riders[r].patience, r, None)
Cancellation_at(e, r) ==
    Event(0, "Cancellation", e.timestamp + riders[r].patience, r, None)

\* RiderRequest.do
RiderRequest_do ==
    /\ Running
    /\ Next_event.kind = "RiderRequest"
    /\ LET e == Next_event
           r == e.rider
           res == request_driver(available_drivers, waiting_riders, drivers,
                                 r, riders[r].origin)
           d == res.ret
           started == start_drive(drivers[d], riders[r].origin)
           travel_time == get_travel_time(started, started.destination)
           cancellation == Cancellation_at(e, r)
       IN  /\ activities' = notify(activities, e.timestamp, "rider", REQUEST,
                                   r, riders[r].origin)
           /\ waiting_riders' = res.waiting
           /\ UNCHANGED <<riders, available_drivers>>
           /\ IF res.error # None
              THEN /\ UNCHANGED drivers
                   /\ Executed(e, None, <<>>, res.error)
              ELSE IF d # None
              THEN /\ drivers' = [drivers EXCEPT ![d] = started]
                   /\ Executed(e, d,
                        <<Event(nextId, "Pickup", e.timestamp + travel_time,
                                r, d),
                          [cancellation EXCEPT !.id = nextId + 1]>>, None)
              ELSE /\ UNCHANGED drivers
                   /\ Executed(e, None,
                        <<[cancellation EXCEPT !.id = nextId]>>, None)

\* DriverRequest.do
DriverRequest_do ==
    /\ Running
    /\ Next_event.kind = "DriverRequest"
    /\ LET e == Next_event
           d == e.driver
           res == request_rider(available_drivers, waiting_riders, drivers, d)
           r == res.ret
           started == start_drive(drivers[d], riders[r].origin)
       IN  /\ activities' = notify(activities, e.timestamp, "driver", REQUEST,
                                   d, drivers[d].location)
           /\ available_drivers' = res.available
           /\ waiting_riders' = res.waiting
           /\ UNCHANGED riders
           /\ IF r = None
              THEN /\ UNCHANGED drivers
                   /\ Executed(e, None, <<>>, None)
              ELSE /\ drivers' = [drivers EXCEPT ![d] = started]
                   /\ IF get_travel_time_raises(started, started.destination)
                      THEN Executed(e, r, <<>>, "AttributeError")
                      ELSE Executed(e, r,
                             <<Event(nextId, "Pickup",
                                     e.timestamp
                                       + get_travel_time(started,
                                                         started.destination),
                                     r, d)>>, None)

\* Cancellation.do
Cancellation_do ==
    /\ Running
    /\ Next_event.kind = "Cancellation"
    /\ LET e == Next_event
           r == e.rider
       IN  /\ IF Cancellation_applies(riders[r].status)
              THEN /\ riders' = [riders EXCEPT ![r].status = CANCELLED]
                   /\ waiting_riders' = cancel_ride(waiting_riders, r)
                   /\ activities' = notify(activities, e.timestamp, "rider",
                                           CANCEL, r, riders[r].origin)
              ELSE UNCHANGED <<riders, waiting_riders, activities>>
           /\ UNCHANGED <<drivers, available_drivers>>
           /\ Executed(e, None, <<>>, None)

\* Pickup.do
Pickup_do ==
    /\ Running
    /\ Next_event.kind = "Pickup"
    /\ LET e == Next_event
           r == e.rider
           d == e.driver
           riding == start_ride(drivers[d], riders[r])
           travel_time == get_travel_time(riding, riding.destination)
       IN  /\ IF Pickup_applies(riders[r].status)
              THEN /\ riders' = [riders EXCEPT ![r].status = SATISFIED]
                   /\ activities' =
                        notify(notify(activities, e.timestamp, "driver",
                                      PICKUP, d, riders[r].origin),
                               e.timestamp, "rider", PICKUP, r,
                               riders[r].origin)
                   /\ drivers' = [drivers EXCEPT ![d] = riding]
                   /\ Executed(e, None,
                        <<Event(nextId, "Dropoff", e.timestamp + travel_time,
                                r, d)>>, None)
              ELSE /\ drivers' = [drivers EXCEPT ![d].is_idle = TRUE,
                                                 ![d].destination = NoLocation]
                   /\ UNCHANGED <<riders, activities>>
                   /\ Executed(e, None,
                        <<Event(nextId, "DriverRequest", e.timestamp,
                                None, d)>>, None)
           /\ UNCHANGED <<available_drivers, waiting_riders>>

\* Dropoff.do
Dropoff_do ==
    /\ Running
    /\ Next_event.kind = "Dropoff"
    /\ LET e == Next_event
           d == e.driver
       IN  /\ activities' = notify(activities, e.timestamp, "driver", DROPOFF,
                                   d, drivers[d].destination)
           /\ drivers' = [drivers EXCEPT
                            ![d] = [end_ride(drivers[d]) EXCEPT
                                      !.destination = NoLocation]]
           /\ UNCHANGED <<riders, available_drivers, waiting_riders>>
           /\ Executed(e, None,
                <<Event(nextId, "DriverRequest", e.timestamp, None, d)>>, None)

\* the queue is empty: the engine asks the monitor for the report
Report ==
    /\ error = None
    /\ events = <<>>
    /\ report = NoReport
    /\ report' = Monitor_report(activities).value
    /\ error' = Monitor_report(activities).error
    /\ UNCHANGED <<events, nextId, riders, drivers, available_drivers,
                   waiting_riders, activities, last, matched>>

Next ==
    \/ RiderRequest_do
    \/ DriverRequest_do
    \/ Cancellation_do
    \/ Pickup_do
    \/ Dropoff_do
    \/ Report


\* ------------------------------------------------------------------ inputs
\* the event file lists each actor once; actors are named in file order
FileOrders(DS, RS) ==
    {o \in [1..Cardinality(DS \cup RS) -> DS \cup RS] :
        /\ \A i, j \in DOMAIN o : i < j => o[i] # o[j]
        /\ \A i, j \in DOMAIN o :
             (i < j /\ o[i] \in DS /\ o[j] \in DS) => Rank[o[i]] < Rank[o[j]]
        /\ \A i, j \in DOMAIN o :
             (i < j /\ o[i] \in RS /\ o[j] \in RS) => Rank[o[i]] < Rank[o[j]]}

\* the file is written in time order
FileStamps(n) ==
    {ts \in [1..n -> 0..MaxTime] : \A i, j \in 1..n : i < j => ts[i] <= ts[j]}

\* create_event_list: one DriverRequest or RiderRequest per line
InitialEvents(order, ts, DS) ==
    [i \in DOMAIN order |->
        IF order[i] \in DS
        THEN Event(i, "DriverRequest", ts[i], None, order[i])
        ELSE Event(i, "RiderRequest", ts[i], order[i], None)]

InitWith(DS, RS, EventLists, DriverSet, RiderSet) ==
    /\ \E initial \in EventLists : events = EnqueueAll(<<>>, initial)
    /\ riders \in [RS -> RiderSet]
    /\ drivers \in [DS -> DriverSet]
    /\ nextId = Cardinality(DS \cup RS) + 1
    /\ available_drivers = <<>>
    /\ waiting_riders = <<>>
    /\ activities = [rider |-> [r \in RS |-> <<>>],
                     driver |-> [d \in DS |-> <<>>]]
    /\ error = None
    /\ last = [event |-> NoEvent, ret |-> None, spawned |-> <<>>]
    /\ report = NoReport
    /\ matched = [r \in RS |-> <<>>]

\* every file naming these actors
EventFiles(DS, RS) ==
    {InitialEvents(order, ts, DS) :
        order \in FileOrders(DS, RS),
        ts \in FileStamps(Cardinality(DS \cup RS))}

Near == {<<0, 0>>, <<0, 1>>}
Far == <<1, 2>>

\* two drivers who sign on at time 0, then two riders: the drivers start
\* near the riders, the riders go to the same place
InitPairs ==
    InitWith({"d1", "d2"}, {"r1", "r2"},
             {InitialEvents(<<"d1", "d2", "r1", "r2">>, ts, {"d1", "d2"}) :
                ts \in {t \in FileStamps(4) : t[2] = 0}},
             {Driver(l, s) : l \in Near, s \in 1..MaxSpeed},
             {Rider(o, Far, p) : o \in Near, p \in 0..MaxPatience})

\* one driver and three riders that start from the same place, so that the
\* waiting list fills up
InitCrowd ==
    InitWith({"d1"}, {"r1", "r2", "r3"},
             EventFiles({"d1"}, {"r1", "r2", "r3"}),
             {Driver(<<0, 0>>, s) : s \in 1..MaxSpeed},
             {Rider(<<0, 1>>, Far, p) : p \in 0..MaxPatience})

\* one driver and one rider, every attribute free
InitSingle ==
    InitWith({"d1"}, {"r1"},
             EventFiles({"d1"}, {"r1"}),
             {Driver(l, s) : l \in Locations, s \in 1..MaxSpeed},
             {Rider(o, d, p) : o \in Locations, d \in Locations,
                               p \in 0..MaxPatience})

\* a file with one line only, or with none
InitSolo ==
    \/ InitWith({"d1"}, {}, EventFiles({"d1"}, {}),
                {Driver(l, s) : l \in Locations, s \in 1..MaxSpeed}, {})
    \/ InitWith({}, {"r1"}, EventFiles({}, {"r1"}), {},
                {Rider(o, d, p) : o \in Locations, d \in Locations,
                                  p \in 0..MaxPatience})
    \/ InitWith({}, {}, {<<>>}, {}, {})

\* one driver at the corner and one rider with a trip of ten blocks up the
\* first street, patient or not
InitTrip ==
    InitWith({"d1"}, {"r1"},
             EventFiles({"d1"}, {"r1"}),
             {Driver(<<0, 0>>, s) : s \in 1..MaxSpeed},
             {Rider(<<0, 5>>, <<0, 15>>, p) : p \in 0..MaxPatience \cup {100}})

\* one rider with a trip of ten blocks and no driver at all
InitAlone ==
    InitWith({}, {"r1"}, EventFiles({}, {"r1"}), {},
             {Rider(<<0, 0>>, <<0, 10>>, p) : p \in 0..MaxPatience \cup {20}})

Init ==
    \/ InitPairs \/ InitCrowd \/ InitSingle \/ InitSolo \/ InitTrip
    \/ InitAlone

Spec == Init /\ [][Next]_vars

\* a step of Next is possible: an event is in the queue and none has
\* raised, or the report is due (this is ENABLED <<Next>>_vars)
Enabled ==
    \/ error = None /\ events # <<>>
    \/ error = None /\ events = <<>> /\ report = NoReport


\* ------------------------------------------------ the queue on its own
\* PriorityQueue driven by arbitrary add and remove calls on plain Events
InitPQ ==
    /\ events = <<>>
    /\ nextId = 1
    /\ riders = <<>>
    /\ drivers = <<>>
    /\ available_drivers = <<>>
    /\ waiting_riders = <<>>
    /\ activities = [rider |-> <<>>, driver |-> <<>>]
    /\ error = None
    /\ last = [event |-> NoEvent, ret |-> None, spawned |-> <<>>]
    /\ report = NoReport
    /\ matched = <<>>

PQ_add ==
    /\ nextId <= MaxAdds
    /\ \E t \in 0..MaxStamp :
         events' = PriorityQueue_add(events,
                                     Event(nextId, "Event", t, None, None))
    /\ nextId' = nextId + 1
    /\ UNCHANGED <<riders, drivers, available_drivers, waiting_riders,
                   activities, error, last, report, matched>>

PQ_remove ==
    /\ events # <<>>
    /\ events' = PriorityQueue_remove(events).items
    /\ last' = [last EXCEPT !.event = PriorityQueue_remove(events).item]
    /\ UNCHANGED <<nextId, riders, drivers, available_drivers,
                   waiting_riders, activities, error, report, matched>>

NextPQ == PQ_add \/ PQ_remove

SpecPQ == InitPQ /\ [][NextPQ]_vars

\* -------------------------------------------- the travel time on its own
\* one driver and one rider anywhere on a small grid; one of the driver's
\* three methods is called once and what it returns is kept in last.ret
Grid == {<<row, column>> : row \in 0..MaxCoord, column \in 0..MaxCoord}

InitTravel ==
    /\ drivers \in [{"d1"} -> {Driver(l, s) : l \in Grid, s \in 1..MaxSpeed}]
    /\ riders \in [{"r1"} -> {Rider(o, d, 0) : o \in Grid, d \in Grid}]
    /\ events = <<>>
    /\ nextId = 1
    /\ available_drivers = <<>>
    /\ waiting_riders = <<>>
    /\ activities = [rider |-> <<>>, driver |-> <<>>]
    /\ error = None
    /\ last = [event |-> NoEvent, ret |-> None, spawned |-> <<>>]
    /\ report = NoReport
    /\ matched = <<>>

Called(method, returned) ==
    /\ last.event = NoEvent
    /\ last' = [event |-> [NoEvent EXCEPT !.kind = method],
                ret |-> returned, spawned |-> <<>>]
    /\ UNCHANGED <<events, nextId, riders, available_drivers, waiting_riders,
                   activities, error, report, matched>>

Travel_get_travel_time ==
    /\ Called("get_travel_time",
              get_travel_time(drivers["d1"], riders["r1"].destination))
    /\ UNCHANGED drivers

Travel_start_drive ==
    /\ Called("start_drive",
              start_drive_returns(drivers["d1"], riders["r1"].origin))
    /\ drivers' = [drivers EXCEPT
                     !["d1"] = start_drive(drivers["d1"], riders["r1"].origin)]

Travel_start_ride ==
    /\ Called("start_ride", start_ride_returns(drivers["d1"], riders["r1"]))
    /\ drivers' = [drivers EXCEPT
                     !["d1"] = start_ride(drivers["d1"], riders["r1"])]

NextTravel ==
    \/ Travel_get_travel_time
    \/ Travel_start_drive
    \/ Travel_start_ride

SpecTravel == InitTravel /\ [][NextTravel]_vars


\* ------------------------------------------------------------- properties
\* the step about to be taken executes an event of this kind
Executing(kind) == Running /\ Next_event.kind = kind

Registered == {available_drivers[i] : i \in 1..Len(available_drivers)}
IdleRegistered == {d \in Registered : drivers[d].is_idle}
PositionOf(d) ==
    SetMin({i \in 1..Len(available_drivers) : available_drivers[i] = d})
NoDuplicates(items) ==
    \A i, j \in 1..Len(items) : i # j => items[i] # items[j]
IsPrefix(a, b) == Len(a) <= Len(b) /\ SubSeq(b, 1, Len(a)) = a
Without(items, x) == SelectSeq(items, LAMBDA y : y # x)

\* C1: request_driver called with at least one registered driver and no
\* idle one does not fail: it returns None and appends the rider to the
\* waiting list.
C1_NoIdleDriverFallsBack ==
    [][(Executing("RiderRequest") /\ Registered # {} /\ IdleRegistered = {})
        => /\ error' = None
           /\ last'.ret = None
           /\ waiting_riders' = Append(waiting_riders, Next_event.rider)]_vars

\* C2: whenever request_driver returns a driver, that driver is idle at the
\* moment of the call.
C2_ReturnedDriverIsIdle ==
    [][(Executing("RiderRequest") /\ last'.ret # None)
        => drivers[last'.ret].is_idle]_vars

\* C3: rider status is monotone: every rider starts WAITING, and a status
\* that is SATISFIED or CANCELLED is never changed by a later event.
C3_StatusMonotone ==
    /\ [](\A r \in DOMAIN riders :
            activities.rider[r] = <<>> => riders[r].status = WAITING)
    /\ [][\A r \in DOMAIN riders :
            riders[r].status # WAITING
                => riders'[r].status = riders[r].status]_vars

\* a Cancellation has executed for a rider that had been picked up
C3_LateCancellation ==
    /\ last.event.kind = "Cancellation"
    /\ riders[last.event.rider].status = SATISFIED

\* C4: the engine executes events in non-decreasing timestamp order: the
\* event removed has the smallest timestamp in the queue, is not earlier
\* than the event executed before it, and spawns no event earlier than
\* itself.
C4_TimestampOrder ==
    [][Running =>
        /\ \A i \in 1..Len(events) :
             last'.event.timestamp <= events[i].timestamp
        /\ last.event.timestamp <= last'.event.timestamp
        /\ \A i \in 1..Len(last'.spawned) :
             last'.event.timestamp <= last'.spawned[i].timestamp]_vars

\* an event created during the run waits in front of an initial event
C4_SpawnedOvertakes ==
    \E i, j \in 1..Len(events) : i < j /\ events[i].id > events[j].id

\* C5: events with equal timestamps leave the PriorityQueue in the order
\* they were added, whatever is added or removed in between.
C5_FifoOnTies ==
    [][Len(events') < Len(events) =>
        \A i \in 1..Len(events') :
            events'[i].timestamp = last'.event.timestamp
                => last'.event.id < events'[i].id]_vars

\* an event was removed ahead of an equal-timestamp event added later,
\* with an event of another timestamp in the queue
C5_TieRemoved ==
    /\ last.event.id # 0
    /\ \E i \in 1..Len(events) :
         /\ events[i].timestamp = last.event.timestamp
         /\ events[i].id > last.event.id
    /\ \E j \in 1..Len(events) : events[j].timestamp # last.event.timestamp

\* C6: the driver request_driver returns has a travel time to the rider's
\* origin no larger than any idle registered driver's, and is the first
\* registered among the idle drivers with that minimal time.
C6_FastestIdleFirstRegistered ==
    [][(Executing("RiderRequest") /\ last'.ret # None) =>
        LET origin == riders[Next_event.rider].origin
            d == last'.ret
        IN  /\ \A o \in IdleRegistered :
                 get_travel_time(drivers[d], origin)
                    <= get_travel_time(drivers[o], origin)
            /\ d \in IdleRegistered
            /\ \A o \in IdleRegistered :
                 get_travel_time(drivers[o], origin)
                    = get_travel_time(drivers[d], origin)
                 => PositionOf(d) <= PositionOf(o)]_vars

\* C7: request_driver with no registered driver returns None and appends
\* the rider to the waiting list; request_rider on a waiting list holding
\* one rider returns that rider and leaves the list empty.
C7_EnqueueThenDequeue ==
    [][/\ (Executing("RiderRequest") /\ available_drivers = <<>>)
            => /\ last'.ret = None
               /\ error' = None
               /\ waiting_riders' = Append(waiting_riders, Next_event.rider)
       /\ (Executing("DriverRequest") /\ Len(waiting_riders) = 1)
            => /\ last'.ret = waiting_riders[1]
               /\ waiting_riders' = <<>>]_vars

\* the first driver to register took the only waiting rider
C7_FirstDriverTakesRider ==
    /\ last.event.kind = "DriverRequest"
    /\ last.ret \in DOMAIN riders
    /\ available_drivers = <<last.event.driver>>
    /\ Len(activities.driver[last.event.driver]) = 1
    /\ waiting_riders = <<>>

\* C8: the driver registry never holds a driver twice and never loses one:
\* request_rider appends the driver on its first call only.
C8_RegistryNoDuplicates ==
    /\ [](NoDuplicates(available_drivers))
    /\ [][/\ IsPrefix(available_drivers, available_drivers')
          /\ Executing("DriverRequest")
                => available_drivers' =
                     IF Next_event.driver \in Registered
                     THEN available_drivers
                     ELSE Append(available_drivers, Next_event.driver)]_vars

\* a registered driver requested a rider again from another location
C8_DriverReturns ==
    /\ last.event.kind = "DriverRequest"
    /\ LET acts == activities.driver[last.event.driver]
       IN  /\ Len(acts) >= 2
           /\ acts[1].location # acts[Len(acts)].location
    /\ Len(available_drivers) = 2

\* C9: request_rider on a non-empty waiting list returns the rider enqueued
\* earliest among those still waiting; riders wait in the order of their
\* requests (actors are named in request order).
C9_LongestWaitingFirst ==
    /\ [](\A i, j \in 1..Len(waiting_riders) :
            i < j => Rank[waiting_riders[i]] < Rank[waiting_riders[j]])
    /\ [][(Executing("DriverRequest") /\ waiting_riders # <<>>)
            => /\ last'.ret = Head(waiting_riders)
               /\ waiting_riders' = Tail(waiting_riders)]_vars

\* a driver took the second rider after the first one cancelled, the third
\* still waiting
C9_SkipsCancelled ==
    /\ last.event.kind = "DriverRequest"
    /\ last.ret = "r2"
    /\ riders["r1"].status = CANCELLED
    /\ waiting_riders = <<"r3">>

\* C10: cancel_ride removes exactly that rider from the waiting list and
\* keeps the order of the others; for a rider not in the list it changes
\* nothing; it never touches the registry or a driver.
C10_CancelRideFrame ==
    [][(Executing("Cancellation")
        /\ riders[Next_event.rider].status # SATISFIED)
        => /\ waiting_riders' = Without(waiting_riders, Next_event.rider)
           /\ Len(waiting_riders') >= Len(waiting_riders) - 1
           /\ available_drivers' = available_drivers
           /\ drivers' = drivers]_vars

\* the rider in the middle of the waiting list cancelled
C10_MiddleCancelled ==
    /\ last.event.kind = "Cancellation"
    /\ last.event.rider = "r2"
    /\ waiting_riders = <<"r1", "r3">>

\* the riders in the waiting list, the events in the queue for a rider
Waiting == {waiting_riders[i] : i \in 1..Len(waiting_riders)}
Pending(kind, r) ==
    \E i \in 1..Len(events) : events[i].kind = kind /\ events[i].rider = r
Recording(acts, description) ==
    \E i \in 1..Len(acts) : acts[i].description = description

\* the rider's request was executed to its end and its Cancellation, which
\* the request scheduled, has left the queue
CancellationExecuted(r) ==
    /\ activities.rider[r] # <<>>
    /\ ~Pending("Cancellation", r)
    /\ ~(error # None /\ last.event.kind = "RiderRequest"
                      /\ last.event.rider = r)

\* C11: between events every rider in the waiting list has status WAITING,
\* has had its RiderRequest executed and has no Pickup (none in the queue,
\* none executed); a rider whose Cancellation has executed is not in the
\* list.
C11_WaitingListMembers ==
    \A r \in DOMAIN riders :
        /\ r \in Waiting =>
              /\ riders[r].status = WAITING
              /\ Recording(activities.rider[r], REQUEST)
              /\ ~Pending("Pickup", r)
              /\ ~Recording(activities.rider[r], PICKUP)
        /\ CancellationExecuted(r) => r \notin Waiting

\* a rider left the waiting list by cancelling, before any driver signed
\* on, while another rider stays in it
C11_CancelledWhileOthersWait ==
    /\ last.event.kind = "Cancellation"
    /\ last.event.rider = "r1"
    /\ riders["r1"].status = CANCELLED
    /\ CancellationExecuted("r1")
    /\ waiting_riders = <<"r2">>
    /\ activities.driver["d1"] = <<>>

\* the events of one kind among those the last event spawned
Spawned(spawned, kind) == SelectSeq(spawned, LAMBDA x : x.kind = kind)

\* C12: a RiderRequest for a rider at time t always spawns exactly one
\* Cancellation for that rider at t + patience; it also spawns a Pickup at
\* t + travel time and sets the driver busy with the rider's origin as
\* destination exactly when the dispatcher returned a driver; otherwise no
\* driver changes.
C12_RiderRequestSpawns ==
    [][Executing("RiderRequest") =>
        LET e == Next_event
            r == e.rider
            d == last'.ret
            cancellations == Spawned(last'.spawned, "Cancellation")
            pickups == Spawned(last'.spawned, "Pickup")
        IN  /\ Len(cancellations) = 1
            /\ cancellations[1].rider = r
            /\ cancellations[1].timestamp = e.timestamp + riders[r].patience
            /\ Len(last'.spawned) = Len(cancellations) + Len(pickups)
            /\ IF d # None
               THEN /\ Len(pickups) = 1
                    /\ pickups[1].rider = r /\ pickups[1].driver = d
                    /\ pickups[1].timestamp =
                         e.timestamp
                           + get_travel_time(drivers[d], riders[r].origin)
                    /\ ~drivers'[d].is_idle
                    /\ drivers'[d].destination = riders[r].origin
                    /\ \A o \in DOMAIN drivers \ {d} :
                            drivers'[o] = drivers[o]
               ELSE /\ Len(pickups) = 0
                    /\ drivers' = drivers]_vars

\* C13: a Cancellation for a SATISFIED rider changes nothing: not the
\* rider's status, the waiting list, the registry, a driver or the monitor's
\* log, and it spawns no event.
C13_LateCancellationNoOp ==
    [][(Executing("Cancellation")
        /\ riders[Next_event.rider].status = SATISFIED)
        => /\ UNCHANGED <<riders, waiting_riders, available_drivers,
                          drivers, activities>>
           /\ last'.spawned = <<>>
           /\ events' = Tail(events)]_vars

\* the Cancellation of a rider that was picked up has been executed, and
\* the rider's log still ends with the pickup
C13_CancelledAfterPickup ==
    /\ last.event.kind = "Cancellation"
    /\ riders[last.event.rider].status = SATISFIED
    /\ Len(activities.rider[last.event.rider]) = 2
    /\ activities.rider[last.event.rider][2].description = PICKUP

\* C14: a Pickup at time t for a rider that is no longer WAITING records no
\* PICKUP activity, leaves the rider's status alone, sets the driver idle
\* with no destination, and spawns exactly one DriverRequest for that driver
\* at t and no Dropoff.
C14_StalePickup ==
    [][(Executing("Pickup")
        /\ riders[Next_event.rider].status # WAITING)
        => LET e == Next_event
               d == e.driver
           IN  /\ activities' = activities
               /\ riders' = riders
               /\ drivers'[d].is_idle
               /\ drivers'[d].destination = NoLocation
               /\ Len(last'.spawned) = 1
               /\ last'.spawned[1].kind = "DriverRequest"
               /\ last'.spawned[1].driver = d
               /\ last'.spawned[1].timestamp = e.timestamp
               /\ Spawned(last'.spawned, "Dropoff") = <<>>]_vars

\* a driver arrived at the origin of a rider that had cancelled
C14_RiderGone ==
    /\ last.event.kind = "Pickup"
    /\ riders[last.event.rider].status = CANCELLED
    /\ ~Recording(activities.driver[last.event.driver], PICKUP)
    /\ drivers[last.event.driver].is_idle
    /\ Len(Spawned(last.spawned, "DriverRequest")) = 1

\* C15: after a Dropoff of a rider by a driver, the driver is at that
\* rider's destination, idle and without destination, a DROPOFF activity at
\* that rider's destination is recorded for the driver, and exactly one
\* DriverRequest for the driver is spawned at the Dropoff's timestamp.
C15_DropoffAtRidersDestination ==
    [][Executing("Dropoff") =>
        LET e == Next_event
            d == e.driver
            r == e.rider
        IN  /\ drivers'[d].location = riders[r].destination
            /\ drivers'[d].is_idle
            /\ drivers'[d].destination = NoLocation
            /\ activities'.driver[d] =
                  Append(activities.driver[d],
                         Activity(e.timestamp, DROPOFF,
                                  riders[r].destination))
            /\ Len(last'.spawned) = 1
            /\ last'.spawned[1].kind = "DriverRequest"
            /\ last'.spawned[1].driver = d
            /\ last'.spawned[1].timestamp = e.timestamp]_vars

\* C16: between events a driver that is idle has no destination and a
\* driver that is not idle has one.
C16_IdleIffNoDestination ==
    \A d \in DOMAIN drivers :
        drivers[d].is_idle <=> drivers[d].destination = NoLocation

\* one driver is idle again after a dropoff while the other is on the way
C16_OneIdleOneBusy ==
    /\ last.event.kind = "Dropoff"
    /\ drivers[last.event.driver].is_idle
    /\ drivers[last.event.driver].destination = NoLocation
    /\ \E d \in DOMAIN drivers :
          ~drivers[d].is_idle /\ drivers[d].destination # NoLocation

\* the engine is about to ask for the report
Reporting == error = None /\ events = <<>> /\ report = NoReport

NoFinishedRider ==
    \A r \in DOMAIN activities.rider : Len(activities.rider[r]) < 2
NoRecordedDriver == Recorded(activities.driver) = {}

\* C17: report() does not fail when an average has no qualifying actor (no
\* recorded rider with two or more activities, or no recorded driver, or no
\* activity at all): it returns zero for that average instead of raising.
C17_ReportWithoutActors ==
    [][(Reporting /\ (NoFinishedRider \/ NoRecordedDriver))
        => /\ error' = None
           /\ report' # NoReport
           /\ NoFinishedRider => report'.rider_wait_time.num = 0
           /\ NoRecordedDriver =>
                 /\ report'.driver_total_distance.num = 0
                 /\ report'.driver_ride_distance.num = 0]_vars

\* the Manhattan distance from a rider's origin to its destination
Trip(r) == manhattan_distance(riders[r].origin, riders[r].destination)

\* C18: the ride distance the report attributes to a driver (the sum over
\* its consecutive PICKUP-then-DROPOFF activities) is the sum of the trips,
\* origin to destination, of the riders it picked up and dropped off: it
\* starts at zero, grows by the rider's trip when the driver drops a rider
\* off, and changes at no other time.
C18_RideDistanceIsTrips ==
    /\ \A d \in DOMAIN drivers :
          ride_distance_raises(activities.driver[d])
            \/ ride_distance(activities.driver[d]) = 0
    /\ [][\A d \in DOMAIN drivers :
            ride_distance_raises(activities.driver[d])
              \/ /\ ~ride_distance_raises(activities'.driver[d])
                 /\ ride_distance(activities'.driver[d]) =
                      ride_distance(activities.driver[d])
                        + (IF Executing("Dropoff") /\ Next_event.driver = d
                           THEN Trip(Next_event.rider) ELSE 0)]_vars

\* driver d1 at (0,0) with speed 1 asked for a rider at time 0 and rider r1,
\* from (0,5) to (0,15) with patience 100, asked for a driver at time 1
TripScenario ==
    /\ DOMAIN drivers = {"d1"} /\ DOMAIN riders = {"r1"}
    /\ drivers["d1"].speed = 1
    /\ riders["r1"].origin = <<0, 5>>
    /\ riders["r1"].destination = <<0, 15>>
    /\ riders["r1"].patience = 100
    /\ activities.driver["d1"] # <<>>
    /\ activities.driver["d1"][1] = Activity(0, REQUEST, <<0, 0>>)
    /\ activities.rider["r1"] # <<>>
    /\ activities.rider["r1"][1] = Activity(1, REQUEST, <<0, 5>>)

PendingAt(kind, timestamp) ==
    \E i \in 1..Len(events) :
        /\ events[i].kind = kind /\ events[i].timestamp = timestamp
        /\ events[i].rider = "r1" /\ events[i].driver = "d1"

\* a quotient that is the integer n
Is(q, n) == q.den # 0 /\ q.num = n * q.den

\* C19: in that scenario the RiderRequest matches d1 at once (r1 never
\* waits in the list), the Pickup executes at time 6 and makes r1 SATISFIED,
\* the Dropoff executes at time 16, and the report's driver_ride_distance
\* is 10.
C19_TripRideDistance ==
    TripScenario =>
        /\ error = None
        /\ waiting_riders = <<>>
        /\ IF Len(activities.rider["r1"]) = 1
           THEN /\ PendingAt("Pickup", 6)
                /\ riders["r1"].status = WAITING
           ELSE /\ activities.rider["r1"][2] = Activity(6, PICKUP, <<0, 5>>)
                /\ activities.driver["d1"][2] = Activity(6, PICKUP, <<0, 5>>)
                /\ riders["r1"].status = SATISFIED
                /\ IF Len(activities.driver["d1"]) = 2
                   THEN PendingAt("Dropoff", 16)
                   ELSE activities.driver["d1"][3] =
                          Activity(16, DROPOFF, <<0, 15>>)
        /\ events = <<>> =>
              Recording(activities.driver["d1"], DROPOFF)
        /\ report # NoReport => Is(report.driver_ride_distance, 10)

\* the scenario ran to its end and the report came back
C19_TripReported ==
    /\ TripScenario
    /\ report # NoReport
    /\ Recording(activities.driver["d1"], DROPOFF)

\* C20: in that scenario the report's rider_wait_time is 6.
C20_TripWaitTimeSix ==
    (TripScenario /\ report # NoReport) => Is(report.rider_wait_time, 6)

\* C20, as the code has it: the report's rider_wait_time is 5, the time
\* from the request at 1 to the pickup at 6.
C20_TripWaitTimeFive ==
    (TripScenario /\ report # NoReport) => Is(report.rider_wait_time, 5)

\* the report of the scenario averages over the one rider
C20_TripWaitReported ==
    /\ TripScenario
    /\ report # NoReport
    /\ report.rider_wait_time.den = 1
    /\ activities.rider["r1"][2].time = 6

\* rider r1, from (0,0) to (0,10) with patience 20, asked for a driver at
\* time 0 and the file names no driver
AloneScenario ==
    /\ DOMAIN drivers = {} /\ DOMAIN riders = {"r1"}
    /\ riders["r1"].origin = <<0, 0>>
    /\ riders["r1"].destination = <<0, 10>>
    /\ riders["r1"].patience = 20
    /\ activities.rider["r1"] # <<>>
    /\ activities.rider["r1"][1] = Activity(0, REQUEST, <<0, 0>>)

\* C21: in that scenario the RiderRequest spawns exactly the Cancellation
\* of r1 at time 20 and puts r1 on the waiting list; when the run is over
\* r1 is CANCELLED, and the waiting list and the event queue are empty.
C21_AloneRiderCancels ==
    AloneScenario =>
        /\ matched["r1"] = <<>>
        /\ IF last.event.kind = "RiderRequest"
           THEN /\ Len(last.spawned) = 1
                /\ last.spawned[1].kind = "Cancellation"
                /\ last.spawned[1].rider = "r1"
                /\ last.spawned[1].timestamp = 20
                /\ events = last.spawned
                /\ waiting_riders = <<"r1">>
                /\ riders["r1"].status = WAITING
           ELSE /\ last.event.kind = "Cancellation"
                /\ riders["r1"].status = CANCELLED
                /\ waiting_riders = <<>>
                /\ events = <<>>

\* the scenario ran to its end
C21_AloneRiderGaveUp ==
    /\ AloneScenario
    /\ events = <<>>
    /\ riders["r1"].status = CANCELLED
    /\ activities.rider["r1"][2] = Activity(20, CANCEL, <<0, 0>>)

\* the rider's RiderRequest has been executed
Requested(r) == r \in DOMAIN riders /\ activities.rider[r] # <<>>

\* C22: every rider whose RiderRequest is executed eventually leaves
\* WAITING: when the run has stopped, or the event queue is empty, it is
\* CANCELLED or SATISFIED and made that one transition (its log has the
\* request and one more entry); no rider is still WAITING at the end.
C22_EveryRiderLeavesWaiting ==
    (~Enabled \/ events = <<>>) =>
        \A r \in DOMAIN riders :
            Requested(r) => /\ riders[r].status # WAITING
                            /\ Len(activities.rider[r]) = 2

\* an event handler raised (a report that raises leaves other traces: the
\* last event spawned nothing without raising)
HandlerRaised ==
    /\ error # None
    /\ \/ last.event.kind = "RiderRequest"
       \/ last.event.kind = "DriverRequest" /\ last.ret # None

ReportRequested ==
    /\ events = <<>>
    /\ ~HandlerRaised
    /\ report # NoReport \/ error # None

\* C23: for every finite file of requests the engine's loop ends with the
\* queue empty and the report asked for: a run only stops there, and the
\* events ever created are at most five for each rider (request,
\* cancellation, pickup, dropoff, the driver's next request) and one for
\* each driver, whatever the travel times and timestamps.
C23_LoopEndsWithReport ==
    /\ Enabled \/ ReportRequested
    /\ nextId - 1 <= 5 * Cardinality(DOMAIN riders)
                        + Cardinality(DOMAIN drivers)

\* how often a description occurs in a log
Count(acts, description) ==
    Cardinality({i \in 1..Len(acts) : acts[i].description = description})

\* C24: a rider's log is a REQUEST, optionally followed by exactly one more
\* activity that is a CANCEL or a PICKUP: never more than two entries,
\* never both CANCEL and PICKUP, never one of them before the REQUEST.
C24_RiderLogShape ==
    \A r \in DOMAIN riders :
        LET acts == activities.rider[r]
        IN  /\ Len(acts) <= 2
            /\ Len(acts) >= 1 => acts[1].description = REQUEST
            /\ Len(acts) = 2 => acts[2].description \in {CANCEL, PICKUP}
            /\ Len(acts) = 2 => acts[2].time >= acts[1].time

\* a run is over in which one rider was picked up and another cancelled,
\* so the Cancellation of the first and every Pickup have been executed
C24_BothEndings ==
    /\ events = <<>>
    /\ \E r \in DOMAIN riders :
          /\ Len(activities.rider[r]) = 2
          /\ activities.rider[r][2].description = PICKUP
    /\ \E r \in DOMAIN riders :
          /\ Len(activities.rider[r]) = 2
          /\ activities.rider[r][2].description = CANCEL
          /\ matched[r] # <<>>

\* the Pickup and Dropoff events in the queue that name a driver
Commitments(d) ==
    {i \in 1..Len(events) :
        events[i].kind \in {"Pickup", "Dropoff"} /\ events[i].driver = d}

\* C26: between events each driver is named by at most one Pickup or
\* Dropoff in the queue, and by one exactly when it is not idle.
C26_OneCommitment ==
    \A d \in DOMAIN drivers :
        /\ Cardinality(Commitments(d)) <= 1
        /\ Commitments(d) # {} <=> ~drivers[d].is_idle

\* C27: each rider is matched at most once: at most one Pickup event is
\* ever created for it, by its own RiderRequest or by a DriverRequest that
\* took it from the waiting list, and at most one driver records a PICKUP
\* of it (the drivers' PICKUP entries are as many as the riders picked up).
C27_MatchedAtMostOnce ==
    /\ \A r \in DOMAIN matched :
          /\ Len(matched[r]) <= 1
          /\ \A i \in 1..Len(matched[r]) :
                matched[r][i].by \in {"RiderRequest", "DriverRequest"}
          /\ Count(activities.rider[r], PICKUP) <= Len(matched[r])
    /\ SumOver([d \in DOMAIN drivers |->
                    Count(activities.driver[d], PICKUP)], DOMAIN drivers)
         = Cardinality({r \in DOMAIN riders :
                           Count(activities.rider[r], PICKUP) = 1})

\* one rider was matched by its own request and picked up, another was
\* taken from the waiting list by a DriverRequest
C27_BothWaysMatched ==
    \E r, w \in DOMAIN matched :
        /\ Len(matched[r]) = 1 /\ matched[r][1].by = "RiderRequest"
        /\ Count(activities.rider[r], PICKUP) = 1
        /\ Len(matched[w]) = 1 /\ matched[w][1].by = "DriverRequest"

\* C28: when a run has completed (the queue is empty and no event raised),
\* every driver that appeared in an event is idle without destination, and
\* every driver that was ever matched to a rider is registered.
C28_DriversAtRest ==
    (events = <<>> /\ error = None) =>
        /\ \A d \in Recorded(activities.driver) :
              drivers[d].is_idle /\ drivers[d].destination = NoLocation
        /\ \A r \in DOMAIN matched : \A i \in 1..Len(matched[r]) :
              matched[r][i].driver \in Registered

\* a run has completed in which a driver carried a rider and a driver was
\* sent to a rider that had given up
C28_RestAfterWork ==
    /\ events = <<>> /\ error = None
    /\ \E d \in DOMAIN drivers : Recording(activities.driver[d], DROPOFF)
    /\ \E r \in DOMAIN matched :
          matched[r] # <<>> /\ riders[r].status = CANCELLED

\* C29: no rider is picked up after its patience has run out: a PICKUP is
\* at most patience after the REQUEST, and a CANCEL is exactly patience
\* after it.
C29_WithinPatience ==
    \A r \in DOMAIN riders :
        LET acts == activities.rider[r]
        IN  Len(acts) >= 2 =>
              /\ acts[2].description = PICKUP =>
                    acts[2].time - acts[1].time <= riders[r].patience
              /\ acts[2].description = CANCEL =>
                    acts[2].time - acts[1].time = riders[r].patience

\* a rider was picked up in the last moment of its patience, and its
\* Cancellation has come and gone
C29_LastMoment ==
    \E r \in DOMAIN riders :
        /\ riders[r].patience > 0
        /\ Len(activities.rider[r]) = 2
        /\ activities.rider[r][2].description = PICKUP
        /\ activities.rider[r][2].time
              = activities.rider[r][1].time + riders[r].patience
        /\ ~Pending("Cancellation", r)

\* the rider's Pickup is due at request time + patience, together with its
\* Cancellation
Tie(r) ==
    /\ Requested(r)
    /\ Len(matched[r]) = 1
    /\ matched[r][1].timestamp
         = activities.rider[r][1].time + riders[r].patience

PositionsOf(kind, r) ==
    {i \in 1..Len(events) : events[i].kind = kind /\ events[i].rider = r}

\* C30: when a rider's Pickup and Cancellation carry the same timestamp,
\* the order of insertion decides. Matched by its own RiderRequest: the
\* Pickup is in front, the rider ends SATISFIED and the Cancellation does
\* nothing. Matched from the waiting list by a DriverRequest: the
\* Cancellation is in front, the rider ends CANCELLED and the stale Pickup
\* releases the driver.
C30_TieFollowsInsertion ==
    \A r \in DOMAIN riders :
        Tie(r) =>
          LET m == matched[r][1]
              acts == activities.rider[r]
              own == m.by = "RiderRequest"
          IN  /\ \A i \in PositionsOf("Pickup", r) :
                    \A j \in PositionsOf("Cancellation", r) :
                        own <=> i < j
              /\ (~Pending("Pickup", r) /\ own) =>
                    /\ riders[r].status = SATISFIED
                    /\ acts = <<acts[1], Activity(m.timestamp, PICKUP,
                                                  riders[r].origin)>>
              /\ (~Pending("Cancellation", r) /\ ~own) =>
                    /\ riders[r].status = CANCELLED
                    /\ acts = <<acts[1], Activity(m.timestamp, CANCEL,
                                                  riders[r].origin)>>
              /\ (~own /\ last.event.kind = "Pickup"
                       /\ last.event.rider = r) =>
                    /\ drivers[m.driver].is_idle
                    /\ drivers[m.driver].destination = NoLocation
                    /\ Len(Spawned(last.spawned, "DriverRequest")) = 1

\* a rider taken from the waiting list had cancelled, at that very time,
\* when the driver arrived
C30_CancelledOnArrival ==
    \E w \in DOMAIN riders :
        /\ Tie(w) /\ matched[w][1].by = "DriverRequest"
        /\ riders[w].patience > 0
        /\ last.event.kind = "Pickup" /\ last.event.rider = w
        /\ last.event.timestamp = matched[w][1].timestamp
        /\ riders[w].status = CANCELLED

\* t is the integer nearest to distance / speed, the even one of the two
\* when the quotient is halfway between them
NearestEven(t, distance, speed) ==
    /\ 2 * Abs(t * speed - distance) <= speed
    /\ 2 * Abs(t * speed - distance) = speed => t % 2 = 0

\* C25: get_travel_time(destination) returns the integer nearest to the
\* Manhattan distance from the driver's location to the destination divided
\* by the speed, the even one on a tie; start_drive and start_ride return
\* that value for the destination they set (start_ride from the rider's
\* origin, where it puts the driver).
C25_TravelTimeRounding ==
    LET d == drivers["d1"]
        r == riders["r1"]
    IN  /\ last.event.kind = "get_travel_time" =>
              NearestEven(last.ret,
                          manhattan_distance(d.location, r.destination),
                          d.speed)
        /\ last.event.kind = "start_drive" =>
              /\ d.destination = r.origin
              /\ NearestEven(last.ret,
                             manhattan_distance(d.location, r.origin),
                             d.speed)
        /\ last.event.kind = "start_ride" =>
              /\ d.location = r.origin /\ d.destination = r.destination
              /\ NearestEven(last.ret,
                             manhattan_distance(r.origin, r.destination),
                             d.speed)

\* a quotient of one half was rounded down to 0, not up to 1
C25_HalfToEven ==
    /\ last.event.kind = "start_drive"
    /\ drivers["d1"].speed = 2
    /\ manhattan_distance(drivers["d1"].location,
                          drivers["d1"].destination) = 1
    /\ last.ret = 0

====
